---- MODULE Spec2Model ----
(***************************************************************************)
(* Employee management system: the Domain Model (models.py), the Storage   *)
(* Engine (data_access_layer.py) and the Business Rules Coordinator        *)
(* (controller.py), as a state machine over the persisted employee table.  *)
(*                                                                         *)
(* A Python str is a sequence of characters, a character is a one-letter   *)
(* TLA+ string; "abc" is written <<"a","b","c">>.  Python None is the      *)
(* value None (for a str) or NoneId (for an id).                           *)
(***************************************************************************)
EXTENDS Integers, Sequences, FiniteSets, TLC

VARIABLES
    scenario,   \* which caller (input universe and initial table) drives the run
    table,      \* the employee table: id -> row (id, fname, lname, department, phNumber)
    before,     \* the table as it was when the last Coordinator call started
    call,       \* the last Coordinator call and its arguments
    result      \* the envelope that call returned

vars == <<scenario, table, before, call, result>>

\* ---------------------------------------------------------------------------
\* Bounds
\* ---------------------------------------------------------------------------

\* A Create that inserts a row is explored only while the id it assigns is at
\* most MaxId.
MaxId == 2

\* The connections left open are counted up to this number.
MaxConnections == 2

\* ---------------------------------------------------------------------------
\* Python values
\* ---------------------------------------------------------------------------

None == <<"None">>

NoneId == 0

Whitespace == {" ", "\t", "\n"}

RECURSIVE lstrip(_)
lstrip(s) ==
    IF s # <<>> /\ Head(s) \in Whitespace THEN lstrip(Tail(s)) ELSE s

RECURSIVE rstrip(_)
rstrip(s) ==
    IF s # <<>> /\ s[Len(s)] \in Whitespace
    THEN rstrip(SubSeq(s, 1, Len(s) - 1))
    ELSE s

\* str.strip()
strip(s) == rstrip(lstrip(s))

\* bool(s) of a str or None
truthy(s) == s # None /\ s # <<>>

AsciiUpper ==
    <<"A","B","C","D","E","F","G","H","I","J","K","L","M",
      "N","O","P","Q","R","S","T","U","V","W","X","Y","Z">>

AsciiLower ==
    <<"a","b","c","d","e","f","g","h","i","j","k","l","m",
      "n","o","p","q","r","s","t","u","v","w","x","y","z">>

\* Letters outside ASCII that have a lower-case form (one pair stands for all).
NonAsciiUpper == <<"U+00C9">>

NonAsciiLower == <<"U+00E9">>

AsciiLowerOf ==
    [c \in {AsciiUpper[i] : i \in DOMAIN AsciiUpper} |->
        AsciiLower[CHOOSE i \in DOMAIN AsciiUpper : AsciiUpper[i] = c]]

NonAsciiLowerOf ==
    [c \in {NonAsciiUpper[i] : i \in DOMAIN NonAsciiUpper} |->
        NonAsciiLower[CHOOSE i \in DOMAIN NonAsciiUpper : NonAsciiUpper[i] = c]]

\* str.lower(): Unicode-aware
lower(s) ==
    [i \in DOMAIN s |->
        IF s[i] \in DOMAIN AsciiLowerOf THEN AsciiLowerOf[s[i]]
        ELSE IF s[i] \in DOMAIN NonAsciiLowerOf THEN NonAsciiLowerOf[s[i]]
        ELSE s[i]]

\* s.startswith(t) in place of  t in s
contains_prefix_only(t, s) ==
    Len(t) <= Len(s) /\ SubSeq(s, 1, Len(t)) = t

\* Python's  t in s  for two str
contains(t, s) ==
    \E i \in 0..(Len(s) - Len(t)) : SubSeq(s, i + 1, i + Len(t)) = t

\* ---------------------------------------------------------------------------
\* SQLite
\* ---------------------------------------------------------------------------

\* The case folding of SQLite's built-in LIKE: ASCII letters only.
like_fold(c) == IF c \in DOMAIN AsciiLowerOf THEN AsciiLowerOf[c] ELSE c

\* s LIKE p : '%' matches any run of characters, '_' exactly one character,
\* any other character matches itself up to ASCII case.
RECURSIVE like(_, _)
like(p, s) ==
    IF p = <<>> THEN s = <<>>
    ELSE IF Head(p) = "%"
         THEN \E k \in 0..Len(s) : like(Tail(p), SubSeq(s, k + 1, Len(s)))
    ELSE IF s = <<>> THEN FALSE
    ELSE IF Head(p) = "_" THEN like(Tail(p), Tail(s))
    ELSE like_fold(Head(p)) = like_fold(Head(s)) /\ like(Tail(p), Tail(s))

\* The ASCII characters U+0020 to U+005F, in code order.
AsciiPunctuationDigitsUpper ==
    <<
      " ","!","\"","#","$","%","&","'","(",")","*","+",",","-",".","/",
      "0","1","2","3","4","5","6","7","8","9",":",";","<","=",">","?",
      "@","A","B","C","D","E","F","G","H","I","J","K","L","M","N","O",
      "P","Q","R","S","T","U","V","W","X","Y","Z","[","\\","]","^","_"
    >>

\* The ASCII characters U+0061 to U+007E, in code order.
AsciiLowerPunctuation ==
    <<
      "a","b","c","d","e","f","g","h","i","j","k","l","m","n","o","p",
      "q","r","s","t","u","v","w","x","y","z","{","|","}","~"
    >>

\* The code point of a character; TEXT compares as its UTF-8 bytes (BINARY
\* collation), which is the order of the code points.
code_point ==
    [c \in {AsciiPunctuationDigitsUpper[i] : i \in DOMAIN AsciiPunctuationDigitsUpper} |->
        31 + (CHOOSE i \in DOMAIN AsciiPunctuationDigitsUpper :
                AsciiPunctuationDigitsUpper[i] = c)]
    @@ [c \in {AsciiLowerPunctuation[i] : i \in DOMAIN AsciiLowerPunctuation} |->
        96 + (CHOOSE i \in DOMAIN AsciiLowerPunctuation : AsciiLowerPunctuation[i] = c)]
    @@ ("\t" :> 9) @@ ("\n" :> 10) @@ ("U+00C9" :> 201) @@ ("U+00E9" :> 233)

\* a < b for two TEXT values under the BINARY collation
RECURSIVE text_less(_, _)
text_less(a, b) ==
    IF b = <<>> THEN FALSE
    ELSE IF a = <<>> THEN TRUE
    ELSE IF Head(a) # Head(b) THEN code_point[Head(a)] < code_point[Head(b)]
    ELSE text_less(Tail(a), Tail(b))

\* ORDER BY <a TEXT column>: the values of a set, ascending.
RECURSIVE order_by_text(_)
order_by_text(values) ==
    IF values = {} THEN <<>>
    ELSE LET m == CHOOSE v \in values : \A w \in values : w = v \/ text_less(v, w)
         IN  <<m>> \o order_by_text(values \ {m})

\* ORDER BY id: the ids of a set, ascending.
RECURSIVE order_by_id(_)
order_by_id(ids) ==
    IF ids = {} THEN <<>>
    ELSE LET m == CHOOSE i \in ids : \A j \in ids : i <= j
         IN  <<m>> \o order_by_id(ids \ {m})

\* The rows with the given ids, ORDER BY id.
select_rows(t, ids) ==
    LET o == order_by_id(ids) IN [k \in DOMAIN o |-> t[o[k]]]

\* The rowid SQLite gives a new row of an INTEGER PRIMARY KEY table without
\* AUTOINCREMENT: one more than the largest rowid in the table.
\* A rowid one more than the number of rows.
next_rowid_count(t) == 1 + Cardinality(DOMAIN t)

next_rowid(t) ==
    IF DOMAIN t = {} THEN 1
    ELSE 1 + (CHOOSE i \in DOMAIN t : \A j \in DOMAIN t : j <= i)

\* ---------------------------------------------------------------------------
\* Domain Model (models.py)
\* ---------------------------------------------------------------------------

_clean_string(value) == IF value = None THEN <<>> ELSE strip(value)

\* Employee(id, fname, lname, department, ph_number) after __post_init__
Employee(id, fname, lname, department, ph_number) ==
    [id         |-> id,
     fname      |-> _clean_string(fname),
     lname      |-> _clean_string(lname),
     department |-> _clean_string(department),
     ph_number  |-> _clean_string(ph_number)]

is_valid(e) ==
    e.fname # <<>> /\ e.lname # <<>> /\ e.department # <<>> /\ e.ph_number # <<>>

\* The last name checked before the first name.
get_validation_errors_last_first(e) ==
    (IF e.lname = <<>> THEN <<"Last name is required">> ELSE <<>>) \o
    (IF e.fname = <<>> THEN <<"First name is required">> ELSE <<>>) \o
    (IF e.department = <<>> THEN <<"Department is required">> ELSE <<>>) \o
    (IF e.ph_number = <<>> THEN <<"Phone number is required">> ELSE <<>>)

get_validation_errors(e) ==
    (IF e.fname = <<>> THEN <<"First name is required">> ELSE <<>>) \o
    (IF e.lname = <<>> THEN <<"Last name is required">> ELSE <<>>) \o
    (IF e.department = <<>> THEN <<"Department is required">> ELSE <<>>) \o
    (IF e.ph_number = <<>> THEN <<"Phone number is required">> ELSE <<>>)

\* to_dict with the phone under the attribute's name, not the column's.
to_dict_attribute_key(e) ==
    [id         |-> e.id,
     fname      |-> e.fname,
     lname      |-> e.lname,
     department |-> e.department,
     ph_number  |-> e.ph_number]

to_dict(e) ==
    [id         |-> e.id,
     fname      |-> e.fname,
     lname      |-> e.lname,
     department |-> e.department,
     phNumber   |-> e.ph_number]

\* data.get(key, default)
dict_get(data, key, default) ==
    IF key \in DOMAIN data THEN data[key] ELSE default

from_dict(data) ==
    Employee(dict_get(data, "id", NoneId),
             dict_get(data, "fname", <<>>),
             dict_get(data, "lname", <<>>),
             dict_get(data, "department", <<>>),
             dict_get(data, "phNumber", <<>>))

EmployeeSearchCriteria(search_term, department) ==
    [search_term |-> strip(search_term), department |-> strip(department)]

has_search_term(c) == c.search_term # <<>>

has_department_filter(c) == c.department # <<>>

\* is_empty with the second "not" lost.
is_empty_one_not(c) == ~has_search_term(c) /\ has_department_filter(c)

is_empty(c) == ~has_search_term(c) /\ ~has_department_filter(c)

EmployeeUpdateData(fname, lname, department, ph_number) ==
    [fname      |-> IF truthy(fname) THEN strip(fname) ELSE None,
     lname      |-> IF truthy(lname) THEN strip(lname) ELSE None,
     department |-> IF truthy(department) THEN strip(department) ELSE None,
     ph_number  |-> IF truthy(ph_number) THEN strip(ph_number) ELSE None]

\* has_updates testing "is None" in place of "is not None".
has_updates_inverted(u) ==
    u.fname = None \/ u.lname = None \/ u.department = None \/ u.ph_number = None

has_updates(u) ==
    u.fname # None \/ u.lname # None \/ u.department # None \/ u.ph_number # None

\* ---------------------------------------------------------------------------
\* Storage Engine (data_access_layer.py); t is the table the statement runs on
\* ---------------------------------------------------------------------------

NoRow == [none |-> TRUE]

\* An INSERT whose values are bound to the name columns in the wrong order.
dal_create_employee_swapped(t, fname, lname, department, ph_number) ==
    LET id == next_rowid(t)
        row == [id |-> id, fname |-> lname, lname |-> fname,
                department |-> department, phNumber |-> ph_number]
    IN  [table |-> [i \in DOMAIN t \cup {id} |-> IF i = id THEN row ELSE t[i]],
         lastrowid |-> id]

\* INSERT INTO employee ...; returns the new table and cursor.lastrowid
dal_create_employee(t, fname, lname, department, ph_number) ==
    LET id == next_rowid(t)
        row == [id |-> id, fname |-> fname, lname |-> lname,
                department |-> department, phNumber |-> ph_number]
    IN  [table |-> [i \in DOMAIN t \cup {id} |-> IF i = id THEN row ELSE t[i]],
         lastrowid |-> id]

\* SELECT * FROM employee WHERE id = ?
dal_get_employee_by_id(t, employee_id) ==
    IF employee_id \in DOMAIN t THEN t[employee_id] ELSE NoRow

\* SELECT * FROM employee ORDER BY id
dal_get_all_employees(t) == select_rows(t, DOMAIN t)

\* The department compared with LIKE, which folds ASCII letter case.
dal_get_employees_by_department_like(t, department) ==
    select_rows(t, {i \in DOMAIN t : like(department, t[i].department)})

\* SELECT * FROM employee WHERE department = ? ORDER BY id
dal_get_employees_by_department(t, department) ==
    select_rows(t, {i \in DOMAIN t : t[i].department = department})

\* An UPDATE that sets all four columns, the ones not given to NULL.
dal_update_employee_all_columns(t, employee_id, fname, lname, department, ph_number) ==
    IF fname = None /\ lname = None /\ department = None /\ ph_number = None
    THEN [table |-> t, matched |-> FALSE]
    ELSE [table |->
            [i \in DOMAIN t |->
                IF i # employee_id THEN t[i]
                ELSE [id |-> t[i].id, fname |-> fname, lname |-> lname,
                      department |-> department, phNumber |-> ph_number]],
          matched |-> employee_id \in DOMAIN t]

\* An UPDATE that sets only the fields that are truthy, so not the empty ones.
dal_update_employee_truthy(t, employee_id, fname, lname, department, ph_number) ==
    IF ~truthy(fname) /\ ~truthy(lname) /\ ~truthy(department) /\ ~truthy(ph_number)
    THEN [table |-> t, matched |-> FALSE]
    ELSE [table |->
            [i \in DOMAIN t |->
                IF i # employee_id THEN t[i]
                ELSE [id         |-> t[i].id,
                      fname      |-> IF truthy(fname) THEN fname ELSE t[i].fname,
                      lname      |-> IF truthy(lname) THEN lname ELSE t[i].lname,
                      department |-> IF truthy(department) THEN department
                                     ELSE t[i].department,
                      phNumber   |-> IF truthy(ph_number) THEN ph_number
                                     ELSE t[i].phNumber]],
          matched |-> employee_id \in DOMAIN t]

\* UPDATE employee SET <the fields that are not None> WHERE id = ?
dal_update_employee(t, employee_id, fname, lname, department, ph_number) ==
    IF fname = None /\ lname = None /\ department = None /\ ph_number = None
    THEN [table |-> t, matched |-> FALSE]
    ELSE [table |->
            [i \in DOMAIN t |->
                IF i # employee_id THEN t[i]
                ELSE [id         |-> t[i].id,
                      fname      |-> IF fname # None THEN fname ELSE t[i].fname,
                      lname      |-> IF lname # None THEN lname ELSE t[i].lname,
                      department |-> IF department # None THEN department
                                     ELSE t[i].department,
                      phNumber   |-> IF ph_number # None THEN ph_number
                                     ELSE t[i].phNumber]],
          matched |-> employee_id \in DOMAIN t]

\* A DELETE that lost its WHERE clause.
dal_delete_employee_all(t, employee_id) ==
    [table |-> <<>>, matched |-> DOMAIN t # {}]

\* DELETE FROM employee WHERE id = ?
dal_delete_employee(t, employee_id) ==
    [table |-> [i \in DOMAIN t \ {employee_id} |-> t[i]],
     matched |-> employee_id \in DOMAIN t]

\* SELECT * FROM employee WHERE fname LIKE ? OR lname LIKE ? ORDER BY id
dal_search_employees(t, search_term) ==
    LET search_pattern == <<"%">> \o search_term \o <<"%">>
    IN  select_rows(t, {i \in DOMAIN t :
            like(search_pattern, t[i].fname) \/ like(search_pattern, t[i].lname)})

\* SELECT MAX(id) in place of COUNT(*).
dal_get_employee_count_max_id(t) ==
    IF DOMAIN t = {} THEN 0 ELSE CHOOSE i \in DOMAIN t : \A j \in DOMAIN t : j <= i

\* SELECT COUNT(*) FROM employee
dal_get_employee_count(t) == Cardinality(DOMAIN t)

\* SELECT DISTINCT department FROM employee WHERE department IS NOT NULL
\* ORDER BY department
dal_get_departments(t) ==
    order_by_text({t[i].department : i \in {j \in DOMAIN t : t[j].department # None}})

\* ---------------------------------------------------------------------------
\* Business Rules Coordinator (controller.py).  Every operation takes the
\* table it runs on and returns the table it leaves and its envelope (the
\* Python dict, key for key).  A message is its f-string: the template and
\* the values formatted into it.
\* ---------------------------------------------------------------------------

\* [Employee.from_dict(emp_data) for emp_data in rows]
from_dicts(rows) == [k \in DOMAIN rows |-> from_dict(rows[k])]

\* for emp in existing_employees: if emp['phNumber'] == ph_number
create_phone_collision_skips_last(existing_employees, ph_number) ==
    \E k \in 1..(Len(existing_employees) - 1) :
        existing_employees[k].phNumber = ph_number

create_phone_collision(existing_employees, ph_number) ==
    \E k \in DOMAIN existing_employees : existing_employees[k].phNumber = ph_number

\* for emp in all_employees:
\*     if emp['phNumber'] == update_data.ph_number and emp['id'] != employee_id
update_phone_collision(all_employees, employee_id, ph_number) ==
    \E k \in DOMAIN all_employees :
        /\ all_employees[k].phNumber = ph_number
        /\ all_employees[k].id # employee_id

\* create_employee inserting before it checks the phone.
create_employee_insert_first(t, fname, lname, department, ph_number) ==
    LET employee == Employee(NoneId, fname, lname, department, ph_number)
        existing_employees == dal_get_all_employees(t)
        ins == dal_create_employee(t, fname, lname, department, ph_number)
    IN  IF ~is_valid(employee)
        THEN [table |-> t,
              result |-> [success |-> FALSE,
                          message |-> <<"Validation failed">>,
                          errors |-> get_validation_errors(employee)]]
        ELSE IF create_phone_collision(existing_employees, ph_number)
        THEN [table |-> ins.table,
              result |-> [success |-> FALSE,
                          message |-> <<"Employee with phone number {} already exists",
                                        ph_number>>]]
        ELSE [table |-> ins.table,
              result |-> [success |-> TRUE,
                          message |-> <<"Employee created successfully with ID: {}",
                                        ins.lastrowid>>,
                          employee_id |-> ins.lastrowid]]

create_employee(t, fname, lname, department, ph_number) ==
    LET employee == Employee(NoneId, fname, lname, department, ph_number)
        existing_employees == dal_get_all_employees(t)
        ins == dal_create_employee(t, fname, lname, department, ph_number)
    IN  IF ~is_valid(employee)
        THEN [table |-> t,
              result |-> [success |-> FALSE,
                          message |-> <<"Validation failed">>,
                          errors |-> get_validation_errors(employee)]]
        ELSE IF create_phone_collision(existing_employees, ph_number)
        THEN [table |-> t,
              result |-> [success |-> FALSE,
                          message |-> <<"Employee with phone number {} already exists",
                                        ph_number>>]]
        ELSE [table |-> ins.table,
              result |-> [success |-> TRUE,
                          message |-> <<"Employee created successfully with ID: {}",
                                        ins.lastrowid>>,
                          employee_id |-> ins.lastrowid]]

\* get_employee taking the record out of the table as it reads it.
get_employee_removing(t, employee_id) ==
    LET employee_data == dal_get_employee_by_id(t, employee_id)
    IN  IF employee_data = NoRow
        THEN [table |-> t,
              result |-> [success |-> FALSE,
                          message |-> <<"Employee with ID {} not found", employee_id>>]]
        ELSE [table |-> dal_delete_employee(t, employee_id).table,
              result |-> [success |-> TRUE,
                          message |-> <<"Employee retrieved successfully">>,
                          employee |-> from_dict(employee_data)]]

get_employee(t, employee_id) ==
    LET employee_data == dal_get_employee_by_id(t, employee_id)
    IN  IF employee_data = NoRow
        THEN [table |-> t,
              result |-> [success |-> FALSE,
                          message |-> <<"Employee with ID {} not found", employee_id>>]]
        ELSE [table |-> t,
              result |-> [success |-> TRUE,
                          message |-> <<"Employee retrieved successfully">>,
                          employee |-> from_dict(employee_data)]]

get_all_employees(t) ==
    LET employees == from_dicts(dal_get_all_employees(t))
    IN  [table |-> t,
         result |-> [success |-> TRUE,
                     message |-> <<"Retrieved {} employees", Len(employees)>>,
                     employees |-> employees]]

\* The success envelope with a count one short of the list.
found_one_short(employees) ==
    [success |-> TRUE,
     message |-> <<"Found {} matching employees", Len(employees) - 1>>,
     employees |-> employees]

\* The success envelope of search_employees
found(employees) ==
    [success |-> TRUE,
     message |-> <<"Found {} matching employees", Len(employees)>>,
     employees |-> employees]

search_employees(t, search_criteria) ==
    LET all_employees == dal_get_all_employees(t)
        keep(emp_data) ==
            /\ \/ contains(lower(search_criteria.search_term), lower(emp_data.fname))
               \/ contains(lower(search_criteria.search_term), lower(emp_data.lname))
            /\ emp_data.department = search_criteria.department
        employees ==
            IF is_empty(search_criteria)
            THEN LET r == get_all_employees(t).result
                 IN  IF r.success THEN r.employees ELSE <<>>
            ELSE IF has_search_term(search_criteria)
                    /\ has_department_filter(search_criteria)
            THEN from_dicts(SelectSeq(all_employees, keep))
            ELSE IF has_search_term(search_criteria)
            THEN from_dicts(dal_search_employees(t, search_criteria.search_term))
            ELSE IF has_department_filter(search_criteria)
            THEN from_dicts(dal_get_employees_by_department(t, search_criteria.department))
            ELSE <<>>
    IN  [table |-> t, result |-> found(employees)]

update_employee(t, employee_id, update_data) ==
    LET existing_employee == dal_get_employee_by_id(t, employee_id)
        all_employees == dal_get_all_employees(t)
        upd == dal_update_employee(t, employee_id, update_data.fname, update_data.lname,
                                   update_data.department, update_data.ph_number)
    IN  IF existing_employee = NoRow
        THEN [table |-> t,
              result |-> [success |-> FALSE,
                          message |-> <<"Employee with ID {} not found", employee_id>>]]
        ELSE IF ~has_updates(update_data)
        THEN [table |-> t,
              result |-> [success |-> FALSE,
                          message |-> <<"No fields provided for update">>]]
        ELSE IF /\ update_data.ph_number # None
                /\ update_phone_collision(all_employees, employee_id,
                                          update_data.ph_number)
        THEN [table |-> t,
              result |-> [success |-> FALSE,
                          message |-> <<"Phone number {} is already in use by another employee",
                                        update_data.ph_number>>]]
        ELSE IF upd.matched
        THEN [table |-> upd.table,
              result |-> [success |-> TRUE,
                          message |-> <<"Employee {} updated successfully", employee_id>>]]
        ELSE [table |-> upd.table,
              result |-> [success |-> FALSE,
                          message |-> <<"Failed to update employee {}", employee_id>>]]

\* delete_employee without its existence check.
delete_employee_unchecked(t, employee_id) ==
    LET del == dal_delete_employee(t, employee_id)
    IN  IF del.matched
        THEN [table |-> del.table,
              result |-> [success |-> TRUE,
                          message |-> <<"Employee {} deleted successfully", employee_id>>]]
        ELSE [table |-> del.table,
              result |-> [success |-> FALSE,
                          message |-> <<"Failed to delete employee {}", employee_id>>]]

delete_employee(t, employee_id) ==
    LET existing_employee == dal_get_employee_by_id(t, employee_id)
        del == dal_delete_employee(t, employee_id)
    IN  IF existing_employee = NoRow
        THEN [table |-> t,
              result |-> [success |-> FALSE,
                          message |-> <<"Employee with ID {} not found", employee_id>>]]
        ELSE IF del.matched
        THEN [table |-> del.table,
              result |-> [success |-> TRUE,
                          message |-> <<"Employee {} deleted successfully", employee_id>>]]
        ELSE [table |-> del.table,
              result |-> [success |-> FALSE,
                          message |-> <<"Failed to delete employee {}", employee_id>>]]

get_employee_statistics(t) ==
    LET total_count == dal_get_employee_count(t)
        departments == dal_get_departments(t)
        department_counts ==
            [dept \in {departments[k] : k \in DOMAIN departments} |->
                Len(dal_get_employees_by_department(t, dept))]
    IN  [table |-> t,
         result |-> [success |-> TRUE,
                     statistics |->
                        [total_employees |-> total_count,
                         total_departments |-> Len(departments),
                         departments |-> departments,
                         employees_per_department |-> department_counts]]]

get_departments(t) ==
    LET departments == dal_get_departments(t)
    IN  [table |-> t,
         result |-> [success |-> TRUE,
                     message |-> <<"Retrieved {} departments", Len(departments)>>,
                     departments |-> departments]]

\* ---------------------------------------------------------------------------
\* Storage failures.  A Storage Engine call that fails raises
\* sqlite3.Error("Failed to ...: <cause>") and leaves the table as it was;
\* the Coordinator operation that made it is described by the calls it makes
\* when none fails, in order, and by what it does when the k-th raises.
\* ---------------------------------------------------------------------------

\* The messages of the errors the Storage Engine raises, by method.
dal_error ==
    [create_employee             |-> "Failed to create employee: {}",
     get_employee_by_id          |-> "Failed to get employee by ID: {}",
     get_all_employees           |-> "Failed to get all employees: {}",
     get_employees_by_department |-> "Failed to get employees by department: {}",
     update_employee             |-> "Failed to update employee: {}",
     delete_employee             |-> "Failed to delete employee: {}",
     search_employees            |-> "Failed to search employees: {}",
     get_employee_count          |-> "Failed to get employee count: {}",
     get_departments             |-> "Failed to get departments: {}"]

\* The messages of the except clauses of the Coordinator, by operation.
failed_to ==
    [create      |-> "Failed to create employee: {}",
     get         |-> "Failed to retrieve employee: {}",
     get_all     |-> "Failed to retrieve employees: {}",
     search      |-> "Failed to search employees: {}",
     update      |-> "Failed to update employee: {}",
     delete      |-> "Failed to delete employee: {}",
     statistics  |-> "Failed to get statistics: {}",
     departments |-> "Failed to get departments: {}"]

\* except Exception as e: return {'success': False, 'message': f'Failed to ...: {e}'}
\* where e was raised by the k-th storage call of the operation
except(t, op, calls, k, cause) ==
    [table |-> t,
     result |-> [success |-> FALSE,
                 message |-> <<failed_to[op], <<dal_error[calls[k]], cause>>>>]]

create_employee_calls(t, fname, lname, department, ph_number) ==
    IF ~is_valid(Employee(NoneId, fname, lname, department, ph_number)) THEN <<>>
    ELSE IF create_phone_collision(dal_get_all_employees(t), ph_number)
    THEN <<"get_all_employees">>
    ELSE <<"get_all_employees", "create_employee">>

get_employee_calls == <<"get_employee_by_id">>

get_all_employees_calls == <<"get_all_employees">>

search_employees_calls(search_criteria) ==
    IF is_empty(search_criteria) THEN <<"get_all_employees">>
    ELSE IF has_search_term(search_criteria) /\ has_department_filter(search_criteria)
    THEN <<"get_all_employees">>
    ELSE IF has_search_term(search_criteria) THEN <<"search_employees">>
    ELSE <<"get_employees_by_department">>

update_employee_calls(t, employee_id, update_data) ==
    IF dal_get_employee_by_id(t, employee_id) = NoRow \/ ~has_updates(update_data)
    THEN <<"get_employee_by_id">>
    ELSE IF update_data.ph_number = None
    THEN <<"get_employee_by_id", "update_employee">>
    ELSE IF update_phone_collision(dal_get_all_employees(t), employee_id,
                                   update_data.ph_number)
    THEN <<"get_employee_by_id", "get_all_employees">>
    ELSE <<"get_employee_by_id", "get_all_employees", "update_employee">>

delete_employee_calls(t, employee_id) ==
    IF dal_get_employee_by_id(t, employee_id) = NoRow
    THEN <<"get_employee_by_id">>
    ELSE <<"get_employee_by_id", "delete_employee">>

get_employee_statistics_calls(t) ==
    <<"get_employee_count", "get_departments">>
    \o [k \in DOMAIN dal_get_departments(t) |-> "get_employees_by_department"]

get_departments_calls == <<"get_departments">>

\* search_employees when the k-th storage call it makes fails: with empty
\* criteria the call is made inside self.get_all_employees(), which returns
\* its own failure envelope, and search_employees goes on with an empty list.
search_employees_failing(t, search_criteria, k, cause) ==
    IF is_empty(search_criteria)
    THEN [table |-> t, result |-> found(<<>>)]
    ELSE except(t, "search", search_employees_calls(search_criteria), k, cause)

\* ---------------------------------------------------------------------------
\* Callers.  A scenario fixes the table the run starts from and the values
\* the caller (the Presentation layer, or any other client of the
\* Coordinator) passes in; the strings are trimmed or not.
\* ---------------------------------------------------------------------------

s_Al == <<"A","l">>
s_HR == <<"H","R">>
s_IT == <<"I","T">>
s_1 == <<"1">>
s_1_untrimmed == <<" ","1">>
s_2 == <<"2">>
s_3 == <<"3">>
s_blank == <<" ">>
s_al == <<"a","l">>
s_John == <<"J","o","h","n">>
s_Doe == <<"D","o","e">>
s_Anna == <<"A","n","n","a">>
s_Lee == <<"L","e","e">>
s_Engineering == <<"E","n","g","i","n","e","e","r","i","n","g">>
s_engineering == <<"e","n","g","i","n","e","e","r","i","n","g">>
s_Marketing == <<"M","a","r","k","e","t","i","n","g">>
s_an == <<"a","n">>
s_AN == <<"A","N">>
s_AN_untrimmed == <<" ","A","N"," ">>
s_oe == <<"o","e">>
s_percent == <<"%">>
s_underscore == <<"_">>
s_J_n == <<"J","_","h","n">>

Row(id, fname, lname, department, phNumber) ==
    [id |-> id, fname |-> fname, lname |-> lname,
     department |-> department, phNumber |-> phNumber]

EmptyTable == <<>>

\* The fixture of the search tests: John Doe and Anna Lee in Engineering,
\* Anna Lee in Marketing.
FixtureTable ==
    <<Row(1, s_John, s_Doe, s_Engineering, s_1),
      Row(2, s_Anna, s_Lee, s_Engineering, s_2),
      Row(3, s_Anna, s_Lee, s_Marketing, s_3)>>

\* The rows create_sample_database.py inserts: first name, last name,
\* department, phone.
sample_employees ==
    <<<<<<"J","o","h","n">>,
        <<"D","o","e">>,
        <<"E","n","g","i","n","e","e","r","i","n","g">>,
        <<"5","5","5","-","0","1","0","1">>>>,
      <<<<"J","a","n","e">>,
        <<"S","m","i","t","h">>,
        <<"M","a","r","k","e","t","i","n","g">>,
        <<"5","5","5","-","0","1","0","2">>>>,
      <<<<"M","i","k","e">>,
        <<"J","o","h","n","s","o","n">>,
        <<"E","n","g","i","n","e","e","r","i","n","g">>,
        <<"5","5","5","-","0","1","0","3">>>>,
      <<<<"S","a","r","a","h">>,
        <<"W","i","l","l","i","a","m","s">>,
        <<"H","R">>,
        <<"5","5","5","-","0","1","0","4">>>>,
      <<<<"D","a","v","i","d">>,
        <<"B","r","o","w","n">>,
        <<"F","i","n","a","n","c","e">>,
        <<"5","5","5","-","0","1","0","5">>>>,
      <<<<"L","i","s","a">>,
        <<"D","a","v","i","s">>,
        <<"M","a","r","k","e","t","i","n","g">>,
        <<"5","5","5","-","0","1","0","6">>>>,
      <<<<"T","o","m">>,
        <<"W","i","l","s","o","n">>,
        <<"E","n","g","i","n","e","e","r","i","n","g">>,
        <<"5","5","5","-","0","1","0","7">>>>,
      <<<<"A","m","y">>,
        <<"G","a","r","c","i","a">>,
        <<"H","R">>,
        <<"5","5","5","-","0","1","0","8">>>>,
      <<<<"C","h","r","i","s">>,
        <<"M","a","r","t","i","n","e","z">>,
        <<"F","i","n","a","n","c","e">>,
        <<"5","5","5","-","0","1","0","9">>>>,
      <<<<"E","m","m","a">>,
        <<"A","n","d","e","r","s","o","n">>,
        <<"M","a","r","k","e","t","i","n","g">>,
        <<"5","5","5","-","0","1","1","0">>>>>>

s_Finance == sample_employees[5][3]
s_555_0110 == sample_employees[10][4]

\* The employee table create_sample_database.py builds: the table the program
\* is started on.
SampleTable ==
    [k \in DOMAIN sample_employees |->
        Row(k, sample_employees[k][1], sample_employees[k][2],
            sample_employees[k][3], sample_employees[k][4])]

\* A caller that starts from an empty table and exercises the phone rules.
CrudCaller ==
    [initial            |-> EmptyTable,
     ids                |-> 1..(MaxId + 1),
     create_fnames      |-> {s_Al},
     create_lnames      |-> {s_Doe},
     create_departments |-> {s_HR},
     create_phones      |-> {s_1, s_1_untrimmed, s_2, <<>>, s_blank},
     update_fnames      |-> {None},
     update_lnames      |-> {None},
     update_departments |-> {None, s_IT},
     update_phones      |-> {None, <<>>, s_blank, s_1, s_1_untrimmed, s_2},
     search_terms       |-> {<<>>, s_blank, s_al},
     search_departments |-> {<<>>, s_blank, s_HR}]

\* A caller that searches the fixture.
FixtureCaller ==
    [initial            |-> FixtureTable,
     ids                |-> 1..(Len(FixtureTable) + 1),
     create_fnames      |-> {s_Anna, <<>>},
     create_lnames      |-> {s_Lee, s_blank},
     create_departments |-> {s_Marketing, <<>>},
     create_phones      |-> {s_3, s_blank},
     update_fnames      |-> {None},
     update_lnames      |-> {None},
     update_departments |-> {None, s_Marketing},
     update_phones      |-> {None},
     search_terms       |-> {<<>>, s_an, s_AN_untrimmed, s_oe, s_percent,
                             s_underscore, s_J_n},
     search_departments |-> {<<>>, s_Engineering, s_engineering, s_Marketing}]

\* A caller that works on the sample database: its first and last record and
\* an id that is not there.
SampleCaller ==
    [initial            |-> SampleTable,
     ids                |-> {1, Len(SampleTable), Len(SampleTable) + 1},
     create_fnames      |-> {s_John},
     create_lnames      |-> {s_Doe},
     create_departments |-> {s_Engineering},
     create_phones      |-> {s_555_0110},
     update_fnames      |-> {None},
     update_lnames      |-> {None},
     update_departments |-> {None, s_HR, s_IT, s_blank},
     update_phones      |-> {None},
     search_terms       |-> {<<>>, s_an},
     search_departments |-> {<<>>, s_HR}]

\* A caller of the Domain Model alone: a field is not given, empty, only
\* whitespace, text, or text with whitespace around it.
DomainCaller ==
    [ids             |-> {NoneId, 1},
     employee_fields |-> {None, s_blank, s_Al, s_AN_untrimmed},
     update_fields   |-> {None, <<>>, s_blank, s_AN_untrimmed}]

\* A caller whose storage may fail: any storage call may raise.
FaultCaller ==
    [initial            |-> EmptyTable,
     ids                |-> 1..MaxId,
     create_fnames      |-> {s_Al},
     create_lnames      |-> {s_Doe},
     create_departments |-> {s_HR, s_IT},
     create_phones      |-> {s_1, s_2, <<>>},
     update_fnames      |-> {None},
     update_lnames      |-> {None},
     update_departments |-> {None, s_IT},
     update_phones      |-> {None, s_1},
     search_terms       |-> {<<>>, s_al},
     search_departments |-> {<<>>, s_HR},
     causes             |-> {"database is locked"}]

\* A caller that builds an Employee and then assigns to its attributes.
EmployeeCaller ==
    [ids        |-> {NoneId, 1},
     fields     |-> {None, s_blank, s_AN_untrimmed},
     attributes |-> {"fname", "lname", "department", "ph_number"},
     assigned   |-> {None, s_blank, s_Al, s_AN_untrimmed}]

\* Two callers that run Create and Update at the same time.
ConcurrentCaller ==
    [initial            |-> EmptyTable,
     callers            |-> {"A", "B"},
     ids                |-> 1..MaxId,
     create_fnames      |-> {s_Al},
     create_lnames      |-> {s_Doe},
     create_departments |-> {s_HR},
     create_phones      |-> {s_1, s_2},
     update_phones      |-> {s_1, s_2}]

\* A caller of the Storage Engine alone, whose database may fail.
StorageCaller ==
    [initial     |-> EmptyTable,
     ids         |-> 1..MaxId,
     fnames      |-> {s_Al},
     lnames      |-> {s_Doe},
     departments |-> {s_HR},
     phones      |-> {s_1},
     terms       |-> {s_al},
     outcomes    |-> {"returns", "connect raises", "execute raises"},
     causes      |-> {"database is locked"}]

Caller ==
    CASE scenario = "crud" -> CrudCaller
      [] scenario = "fault" -> FaultCaller
      [] scenario = "fixture" -> FixtureCaller
      [] scenario = "sample" -> SampleCaller

\* ---------------------------------------------------------------------------
\* The state machine: one action per Coordinator operation
\* ---------------------------------------------------------------------------

NoResult == [none |-> TRUE]

Start(s, t) ==
    /\ scenario = s
    /\ table = t
    /\ before = t
    /\ call = [op |-> "none"]
    /\ result = NoResult

Init == Start("crud", CrudCaller.initial)

InitFixture == Start("fixture", FixtureCaller.initial)

InitSample == Start("sample", SampleCaller.initial)

InitDomain == Start("domain", EmptyTable)

InitEmployee == Start("employee", EmptyTable)

\* No caller has a call under way.
Idle == [op |-> "idle"]

InitConcurrent ==
    /\ scenario = "concurrent"
    /\ table = ConcurrentCaller.initial
    /\ before = ConcurrentCaller.initial
    /\ call = [c \in ConcurrentCaller.callers |-> Idle]
    /\ result = [c \in ConcurrentCaller.callers |-> NoResult]

InitStorage == Start("storage", StorageCaller.initial)

InitFault == Start("fault", FaultCaller.initial)

\* The call c ran on the current table and returned r.
Returns(c, r) ==
    /\ table' = r.table
    /\ result' = r.result
    /\ before' = table
    /\ call' = c
    /\ UNCHANGED scenario

\* Bound: a Create that inserts is explored while the new id is at most MaxId.
Create(fname, lname, department, ph_number) ==
    /\ create_employee(table, fname, lname, department, ph_number).result.success
          => next_rowid(table) <= MaxId
    /\ Returns([op |-> "create", fname |-> fname, lname |-> lname,
                department |-> department, ph_number |-> ph_number],
               create_employee(table, fname, lname, department, ph_number))

Get(employee_id) ==
    Returns([op |-> "get", employee_id |-> employee_id],
            get_employee(table, employee_id))

GetAll ==
    Returns([op |-> "get_all"], get_all_employees(table))

Search(search_term, department) ==
    Returns([op |-> "search", search_term |-> search_term, department |-> department],
            search_employees(table, EmployeeSearchCriteria(search_term, department)))

Update(employee_id, fname, lname, department, ph_number) ==
    Returns([op |-> "update", employee_id |-> employee_id, fname |-> fname,
             lname |-> lname, department |-> department, ph_number |-> ph_number],
            update_employee(table, employee_id,
                            EmployeeUpdateData(fname, lname, department, ph_number)))

Delete(employee_id) ==
    Returns([op |-> "delete", employee_id |-> employee_id],
            delete_employee(table, employee_id))

Statistics ==
    Returns([op |-> "statistics"], get_employee_statistics(table))

ListDepartments ==
    Returns([op |-> "departments"], get_departments(table))

Next ==
    \/ \E fname \in Caller.create_fnames, lname \in Caller.create_lnames,
          department \in Caller.create_departments, ph_number \in Caller.create_phones :
            Create(fname, lname, department, ph_number)
    \/ \E employee_id \in Caller.ids : Get(employee_id)
    \/ GetAll
    \/ \E search_term \in Caller.search_terms, department \in Caller.search_departments :
            Search(search_term, department)
    \/ \E employee_id \in Caller.ids,
          fname \in Caller.update_fnames, lname \in Caller.update_lnames,
          department \in Caller.update_departments, ph_number \in Caller.update_phones :
            Update(employee_id, fname, lname, department, ph_number)
    \/ \E employee_id \in Caller.ids : Delete(employee_id)
    \/ Statistics
    \/ ListDepartments

Spec == Init /\ [][Next]_vars

\* Employee(...).to_dict() and Employee.from_dict() of that dict
RoundTrip(id, fname, lname, department, ph_number) ==
    LET e == Employee(id, fname, lname, department, ph_number)
    IN  Returns([op |-> "round_trip", employee |-> e],
                [table |-> table,
                 result |-> [data |-> to_dict(e), employee |-> from_dict(to_dict(e))]])

\* EmployeeUpdateData(...) and has_updates() of it
UpdateData(fname, lname, department, ph_number) ==
    LET u == EmployeeUpdateData(fname, lname, department, ph_number)
    IN  Returns([op |-> "update_data", fname |-> fname, lname |-> lname,
                 department |-> department, ph_number |-> ph_number],
                [table |-> table,
                 result |-> [update_data |-> u, has_updates |-> has_updates(u)]])

NextDomain ==
    \/ \E id \in DomainCaller.ids :
       \E fname \in DomainCaller.employee_fields, lname \in DomainCaller.employee_fields :
       \E department \in DomainCaller.employee_fields :
       \E ph_number \in DomainCaller.employee_fields :
          RoundTrip(id, fname, lname, department, ph_number)
    \/ \E fname \in DomainCaller.update_fields, lname \in DomainCaller.update_fields :
       \E department \in DomainCaller.update_fields :
       \E ph_number \in DomainCaller.update_fields :
          UpdateData(fname, lname, department, ph_number)

\* employee = Employee(id, fname, lname, department, ph_number)
Construct(id, fname, lname, department, ph_number) ==
    Returns([op |-> "construct", id |-> id, fname |-> fname, lname |-> lname,
             department |-> department, ph_number |-> ph_number],
            [table |-> table,
             result |-> [employee |-> Employee(id, fname, lname, department, ph_number)]])

\* employee.<attribute> = value: Employee is a plain dataclass, the attribute
\* is bound to the value as given.
Assign(attribute, value) ==
    /\ "employee" \in DOMAIN result
    /\ Returns([op |-> "assign", attribute |-> attribute, value |-> value],
               [table |-> table,
                result |-> [employee |-> [result.employee EXCEPT ![attribute] = value]]])

NextEmployee ==
    \/ \E id \in EmployeeCaller.ids :
       \E fname \in EmployeeCaller.fields, lname \in EmployeeCaller.fields :
       \E department \in EmployeeCaller.fields, ph_number \in EmployeeCaller.fields :
          Construct(id, fname, lname, department, ph_number)
    \/ \E attribute \in EmployeeCaller.attributes :
       \E value \in EmployeeCaller.assigned :
          Assign(attribute, value)

SpecEmployee == InitEmployee /\ [][NextEmployee]_vars

\* ---------------------------------------------------------------------------
\* Concurrent callers: every storage call of an operation is one step (its
\* own connection and transaction); between two steps of one caller the other
\* caller may take steps.  call[c] is the call caller c has under way, with
\* what it has read so far; result[c] is what the call returned.
\* ---------------------------------------------------------------------------

\* Caller c goes on to the next storage call of its operation.
Proceeds(c, position, t) ==
    /\ call' = [call EXCEPT ![c] = position]
    /\ table' = t
    /\ before' = table
    /\ UNCHANGED <<scenario, result>>

\* The call of caller c returns r.
Returned(c, t, r) ==
    /\ call' = [call EXCEPT ![c] = [call[c] EXCEPT !.pc = "done"]]
    /\ result' = [result EXCEPT ![c] = r]
    /\ table' = t
    /\ before' = table
    /\ UNCHANGED scenario

\* create_employee up to and with its scan: validation, get_all_employees,
\* the collision check
CreateScan(c, fname, lname, department, ph_number) ==
    LET employee == Employee(NoneId, fname, lname, department, ph_number)
        existing_employees == dal_get_all_employees(table)
        started == [op |-> "create", fname |-> fname, lname |-> lname,
                    department |-> department, ph_number |-> ph_number,
                    existing_employees |-> existing_employees, pc |-> "insert"]
    IN  /\ call[c] = Idle
        /\ IF ~is_valid(employee)
              \/ create_phone_collision(existing_employees, ph_number)
           THEN /\ call' = [call EXCEPT ![c] = [started EXCEPT !.pc = "done"]]
                /\ result' = [result EXCEPT ![c] =
                        create_employee(table, fname, lname, department, ph_number).result]
                /\ before' = table
                /\ UNCHANGED <<scenario, table>>
           ELSE Proceeds(c, started, table)

\* An insert that checks for the collision again in its own transaction.
CreateInsertIsolated(c) ==
    LET ins == dal_create_employee(table, call[c].fname, call[c].lname,
                                   call[c].department, call[c].ph_number)
    IN  /\ call[c].op = "create"
        /\ call[c].pc = "insert"
        /\ next_rowid(table) <= MaxId
        /\ IF create_phone_collision(dal_get_all_employees(table), call[c].ph_number)
           THEN Returned(c, table,
                    [success |-> FALSE,
                     message |-> <<"Employee with phone number {} already exists",
                                   call[c].ph_number>>])
           ELSE Returned(c, ins.table,
                    [success |-> TRUE,
                     message |-> <<"Employee created successfully with ID: {}",
                                   ins.lastrowid>>,
                     employee_id |-> ins.lastrowid])

\* create_employee from its insert on: dal.create_employee and the return
CreateInsert(c) ==
    LET ins == dal_create_employee(table, call[c].fname, call[c].lname,
                                   call[c].department, call[c].ph_number)
    IN  /\ call[c].op = "create"
        /\ call[c].pc = "insert"
        /\ next_rowid(table) <= MaxId
        /\ Returned(c, ins.table,
                    [success |-> TRUE,
                     message |-> <<"Employee created successfully with ID: {}",
                                   ins.lastrowid>>,
                     employee_id |-> ins.lastrowid])

\* update_employee up to its scan: get_employee_by_id, has_updates
UpdateGet(c, employee_id, ph_number) ==
    LET update_data == EmployeeUpdateData(None, None, None, ph_number)
        started == [op |-> "update", employee_id |-> employee_id,
                    update_data |-> update_data, all_employees |-> <<>>,
                    pc |-> IF update_data.ph_number # None THEN "scan" ELSE "update"]
    IN  /\ call[c] = Idle
        /\ IF dal_get_employee_by_id(table, employee_id) = NoRow
              \/ ~has_updates(update_data)
           THEN /\ call' = [call EXCEPT ![c] = [started EXCEPT !.pc = "done"]]
                /\ result' = [result EXCEPT ![c] =
                        update_employee(table, employee_id, update_data).result]
                /\ before' = table
                /\ UNCHANGED <<scenario, table>>
           ELSE Proceeds(c, started, table)

\* update_employee, its scan: get_all_employees and the collision check
UpdateScan(c) ==
    LET all_employees == dal_get_all_employees(table)
    IN  /\ call[c].op = "update"
        /\ call[c].pc = "scan"
        /\ IF update_phone_collision(all_employees, call[c].employee_id,
                                     call[c].update_data.ph_number)
           THEN Returned(c, table,
                    [success |-> FALSE,
                     message |-> <<"Phone number {} is already in use by another employee",
                                   call[c].update_data.ph_number>>])
           ELSE Proceeds(c, [call[c] EXCEPT !.all_employees = all_employees,
                                            !.pc = "update"], table)

\* update_employee from its write on: dal.update_employee and the return
UpdateWrite(c) ==
    LET u == call[c].update_data
        upd == dal_update_employee(table, call[c].employee_id, u.fname, u.lname,
                                   u.department, u.ph_number)
    IN  /\ call[c].op = "update"
        /\ call[c].pc = "update"
        /\ Returned(c, upd.table,
                IF upd.matched
                THEN [success |-> TRUE,
                      message |-> <<"Employee {} updated successfully",
                                    call[c].employee_id>>]
                ELSE [success |-> FALSE,
                      message |-> <<"Failed to update employee {}",
                                    call[c].employee_id>>])

\* The caller has its result and is free to make its next call.
NextCall(c) ==
    /\ call[c] # Idle
    /\ call[c].pc = "done"
    /\ call' = [call EXCEPT ![c] = Idle]
    /\ result' = [result EXCEPT ![c] = NoResult]
    /\ before' = table
    /\ UNCHANGED <<scenario, table>>

NextConcurrent ==
    \/ \E c \in ConcurrentCaller.callers :
       \E fname \in ConcurrentCaller.create_fnames :
       \E lname \in ConcurrentCaller.create_lnames :
       \E department \in ConcurrentCaller.create_departments :
       \E ph_number \in ConcurrentCaller.create_phones :
          CreateScan(c, fname, lname, department, ph_number)
    \/ \E c \in ConcurrentCaller.callers : CreateInsert(c)
    \/ \E c \in ConcurrentCaller.callers :
       \E employee_id \in ConcurrentCaller.ids :
       \E ph_number \in ConcurrentCaller.update_phones :
          UpdateGet(c, employee_id, ph_number)
    \/ \E c \in ConcurrentCaller.callers : UpdateScan(c)
    \/ \E c \in ConcurrentCaller.callers : UpdateWrite(c)
    \/ \E c \in ConcurrentCaller.callers : NextCall(c)

SpecConcurrent == InitConcurrent /\ [][NextConcurrent]_vars

\* ---------------------------------------------------------------------------
\* The Storage Engine and its connections.  Every method runs
\*     with self.db_connection.get_connection() as conn: ...
\* get_connection opens a connection; leaving the with block commits or
\* rolls back and does not close it, and no method calls close(): the
\* connection is closed when the interpreter reclaims the object, which may
\* be at the return of the method or at a later collection.
\* ---------------------------------------------------------------------------

\* The connections that are open.
open_connections ==
    IF "open_connections" \in DOMAIN result THEN result.open_connections ELSE 0

\* A method of the Storage Engine runs to its return or to its raise: t and
\* value are the table it leaves and the value it returns when nothing fails.
StorageCall(c, method, t, value, outcome, cause, reclaimed) ==
    LET opened == IF outcome = "connect raises" \/ reclaimed THEN 0 ELSE 1
    IN  /\ open_connections + opened <= MaxConnections
        /\ call' = c @@ [method |-> method, outcome |-> outcome]
        /\ before' = table
        /\ table' = IF outcome = "returns" THEN t ELSE table
        /\ result' = [open_connections |-> open_connections + opened,
                      value |-> IF outcome = "returns" THEN <<"returned", value>>
                                ELSE <<"raised", dal_error[method], cause>>]
        /\ UNCHANGED scenario

DalCreateEmployee(fname, lname, department, ph_number, outcome, cause, reclaimed) ==
    LET ins == dal_create_employee(table, fname, lname, department, ph_number)
    IN  /\ outcome = "returns" => next_rowid(table) <= MaxId
        /\ StorageCall([op |-> "dal", fname |-> fname, lname |-> lname,
                        department |-> department, ph_number |-> ph_number],
                       "create_employee", ins.table, ins.lastrowid,
                       outcome, cause, reclaimed)

DalGetEmployeeById(employee_id, outcome, cause, reclaimed) ==
    StorageCall([op |-> "dal", employee_id |-> employee_id], "get_employee_by_id",
                table, dal_get_employee_by_id(table, employee_id),
                outcome, cause, reclaimed)

DalGetAllEmployees(outcome, cause, reclaimed) ==
    StorageCall([op |-> "dal"], "get_all_employees",
                table, dal_get_all_employees(table), outcome, cause, reclaimed)

DalGetEmployeesByDepartment(department, outcome, cause, reclaimed) ==
    StorageCall([op |-> "dal", department |-> department],
                "get_employees_by_department",
                table, dal_get_employees_by_department(table, department),
                outcome, cause, reclaimed)

\* With no field to set the method returns False before it opens a connection.
DalUpdateEmployee(employee_id, department, outcome, cause, reclaimed) ==
    LET upd == dal_update_employee(table, employee_id, None, None, department, None)
    IN  /\ department = None => (outcome = "returns" /\ reclaimed)
        /\ StorageCall([op |-> "dal", employee_id |-> employee_id,
                        department |-> department],
                       "update_employee", upd.table, upd.matched,
                       outcome, cause, reclaimed)

DalDeleteEmployee(employee_id, outcome, cause, reclaimed) ==
    LET del == dal_delete_employee(table, employee_id)
    IN  StorageCall([op |-> "dal", employee_id |-> employee_id], "delete_employee",
                    del.table, del.matched, outcome, cause, reclaimed)

DalSearchEmployees(search_term, outcome, cause, reclaimed) ==
    StorageCall([op |-> "dal", search_term |-> search_term], "search_employees",
                table, dal_search_employees(table, search_term),
                outcome, cause, reclaimed)

DalGetEmployeeCount(outcome, cause, reclaimed) ==
    StorageCall([op |-> "dal"], "get_employee_count",
                table, dal_get_employee_count(table), outcome, cause, reclaimed)

DalGetDepartments(outcome, cause, reclaimed) ==
    StorageCall([op |-> "dal"], "get_departments",
                table, dal_get_departments(table), outcome, cause, reclaimed)

\* The interpreter reclaims the connection objects no longer referenced.
Collect ==
    /\ open_connections > 0
    /\ result' = [result EXCEPT !.open_connections = 0]
    /\ call' = [op |-> "collect"]
    /\ before' = table
    /\ UNCHANGED <<scenario, table>>

NextStorage ==
    \/ \E outcome \in StorageCaller.outcomes, cause \in StorageCaller.causes :
       \E reclaimed \in BOOLEAN :
       \E fname \in StorageCaller.fnames, lname \in StorageCaller.lnames :
       \E department \in StorageCaller.departments, ph_number \in StorageCaller.phones :
          DalCreateEmployee(fname, lname, department, ph_number, outcome, cause, reclaimed)
    \/ \E outcome \in StorageCaller.outcomes, cause \in StorageCaller.causes :
       \E reclaimed \in BOOLEAN :
       \E employee_id \in StorageCaller.ids :
          DalGetEmployeeById(employee_id, outcome, cause, reclaimed)
    \/ \E outcome \in StorageCaller.outcomes, cause \in StorageCaller.causes :
       \E reclaimed \in BOOLEAN :
          DalGetAllEmployees(outcome, cause, reclaimed)
    \/ \E outcome \in StorageCaller.outcomes, cause \in StorageCaller.causes :
       \E reclaimed \in BOOLEAN :
       \E department \in StorageCaller.departments :
          DalGetEmployeesByDepartment(department, outcome, cause, reclaimed)
    \/ \E outcome \in StorageCaller.outcomes, cause \in StorageCaller.causes :
       \E reclaimed \in BOOLEAN :
       \E employee_id \in StorageCaller.ids :
       \E department \in StorageCaller.departments \cup {None} :
          DalUpdateEmployee(employee_id, department, outcome, cause, reclaimed)
    \/ \E outcome \in StorageCaller.outcomes, cause \in StorageCaller.causes :
       \E reclaimed \in BOOLEAN :
       \E employee_id \in StorageCaller.ids :
          DalDeleteEmployee(employee_id, outcome, cause, reclaimed)
    \/ \E outcome \in StorageCaller.outcomes, cause \in StorageCaller.causes :
       \E reclaimed \in BOOLEAN :
       \E search_term \in StorageCaller.terms :
          DalSearchEmployees(search_term, outcome, cause, reclaimed)
    \/ \E outcome \in StorageCaller.outcomes, cause \in StorageCaller.causes :
       \E reclaimed \in BOOLEAN :
          DalGetEmployeeCount(outcome, cause, reclaimed)
    \/ \E outcome \in StorageCaller.outcomes, cause \in StorageCaller.causes :
       \E reclaimed \in BOOLEAN :
          DalGetDepartments(outcome, cause, reclaimed)
    \/ Collect

SpecStorage == InitStorage /\ [][NextStorage]_vars

SpecDomain == InitDomain /\ [][NextDomain]_vars

\* The operations with their k-th storage call failing.
Failing(c, calls, k, cause, r) ==
    Returns(c @@ [fails |-> calls[k], cause |-> cause], r)

CreateFailing(fname, lname, department, ph_number, cause) ==
    LET calls == create_employee_calls(table, fname, lname, department, ph_number)
    IN  \E k \in DOMAIN calls :
            Failing([op |-> "create", fname |-> fname, lname |-> lname,
                     department |-> department, ph_number |-> ph_number],
                    calls, k, cause, except(table, "create", calls, k, cause))

GetFailing(employee_id, cause) ==
    \E k \in DOMAIN get_employee_calls :
        Failing([op |-> "get", employee_id |-> employee_id], get_employee_calls, k, cause,
                except(table, "get", get_employee_calls, k, cause))

GetAllFailing(cause) ==
    \E k \in DOMAIN get_all_employees_calls :
        Failing([op |-> "get_all"], get_all_employees_calls, k, cause,
                except(table, "get_all", get_all_employees_calls, k, cause))

SearchFailing(search_term, department, cause) ==
    LET search_criteria == EmployeeSearchCriteria(search_term, department)
        calls == search_employees_calls(search_criteria)
    IN  \E k \in DOMAIN calls :
            Failing([op |-> "search", search_term |-> search_term,
                     department |-> department],
                    calls, k, cause,
                    search_employees_failing(table, search_criteria, k, cause))

UpdateFailing(employee_id, fname, lname, department, ph_number, cause) ==
    LET calls == update_employee_calls(table, employee_id,
                    EmployeeUpdateData(fname, lname, department, ph_number))
    IN  \E k \in DOMAIN calls :
            Failing([op |-> "update", employee_id |-> employee_id, fname |-> fname,
                     lname |-> lname, department |-> department,
                     ph_number |-> ph_number],
                    calls, k, cause, except(table, "update", calls, k, cause))

DeleteFailing(employee_id, cause) ==
    LET calls == delete_employee_calls(table, employee_id)
    IN  \E k \in DOMAIN calls :
            Failing([op |-> "delete", employee_id |-> employee_id], calls, k, cause,
                    except(table, "delete", calls, k, cause))

StatisticsFailing(cause) ==
    LET calls == get_employee_statistics_calls(table)
    IN  \E k \in DOMAIN calls :
            Failing([op |-> "statistics"], calls, k, cause,
                    except(table, "statistics", calls, k, cause))

ListDepartmentsFailing(cause) ==
    \E k \in DOMAIN get_departments_calls :
        Failing([op |-> "departments"], get_departments_calls, k, cause,
                except(table, "departments", get_departments_calls, k, cause))

NextFault ==
    \/ Next
    \/ \E cause \in Caller.causes :
       \E fname \in Caller.create_fnames, lname \in Caller.create_lnames :
       \E department \in Caller.create_departments :
       \E ph_number \in Caller.create_phones :
          CreateFailing(fname, lname, department, ph_number, cause)
    \/ \E cause \in Caller.causes :
       \E employee_id \in Caller.ids : GetFailing(employee_id, cause)
    \/ \E cause \in Caller.causes : GetAllFailing(cause)
    \/ \E cause \in Caller.causes :
       \E search_term \in Caller.search_terms :
       \E department \in Caller.search_departments :
          SearchFailing(search_term, department, cause)
    \/ \E cause \in Caller.causes :
       \E employee_id \in Caller.ids :
       \E fname \in Caller.update_fnames, lname \in Caller.update_lnames :
       \E department \in Caller.update_departments :
       \E ph_number \in Caller.update_phones :
          UpdateFailing(employee_id, fname, lname, department, ph_number, cause)
    \/ \E cause \in Caller.causes :
       \E employee_id \in Caller.ids : DeleteFailing(employee_id, cause)
    \/ \E cause \in Caller.causes : StatisticsFailing(cause)
    \/ \E cause \in Caller.causes : ListDepartmentsFailing(cause)

SpecFault == InitFault /\ [][NextFault]_vars

SpecFixture == InitFixture /\ [][Next]_vars

SpecSample == InitSample /\ [][Next]_vars

\* ---------------------------------------------------------------------------
\* Vocabulary of the properties
\* ---------------------------------------------------------------------------

\* The update request the last Update call was made with.
CallRequest ==
    EmployeeUpdateData(call.fname, call.lname, call.department, call.ph_number)

\* The search criteria the last Search call was made with.
CallCriteria == EmployeeSearchCriteria(call.search_term, call.department)

\* The Employee the Domain Model builds from the inputs of the last Create call.
CallEmployee(id) ==
    Employee(id, call.fname, call.lname, call.department, call.ph_number)

\* All four fields of the request are absent.
AllAbsent(u) ==
    u.fname = None /\ u.lname = None /\ u.department = None /\ u.ph_number = None

NotFound(employee_id) ==
    [success |-> FALSE, message |-> <<"Employee with ID {} not found", employee_id>>]

\* t occurs in s as a substring, letter case ignored.
SubstringIgnoringCase(t, s) ==
    \E i \in 1..(Len(s) + 1) : \E j \in (i - 1)..Len(s) :
        lower(SubSeq(s, i, j)) = lower(t)

NameMatches(t, row) ==
    SubstringIgnoringCase(t, row.fname) \/ SubstringIgnoringCase(t, row.lname)

\* employees lists exactly the records of the rows ids of table t, by ascending id.
ListsExactly(employees, t, ids) ==
    /\ Len(employees) = Cardinality(ids)
    /\ \A k \in DOMAIN employees :
          employees[k].id \in ids /\ employees[k] = from_dict(t[employees[k].id])
    /\ \A k \in 1..(Len(employees) - 1) : employees[k].id < employees[k + 1].id

\* ---------------------------------------------------------------------------
\* Properties
\* ---------------------------------------------------------------------------

\* C1: no two persisted records have the same phone number, the phone number
\* being the value the Domain Model presents (whitespace-trimmed).
C1_PhoneUnique ==
    \A i, j \in DOMAIN table :
        i # j => from_dict(table[i]).ph_number # from_dict(table[j]).ph_number

\* C2: Create with four fields that are non-empty after trimming and a phone
\* no persisted record holds succeeds with an id no record had, and a Get on
\* that id right afterwards returns the Employee built from the same inputs.
C2_CreateThenGet ==
    (/\ call.op = "create"
     /\ is_valid(CallEmployee(NoneId))
     /\ \A i \in DOMAIN before : before[i].phNumber # call.ph_number)
    => /\ result.success
       /\ result.employee_id \notin DOMAIN before
       /\ LET got == get_employee(table, result.employee_id).result
          IN  got.success /\ got.employee = CallEmployee(result.employee_id)

C2_Witness ==
    /\ call.op = "create"
    /\ call.ph_number = s_1_untrimmed
    /\ DOMAIN before # {}
    /\ result.success
    /\ get_employee(table, result.employee_id).result.employee.ph_number = s_1

\* C3: Create with valid fields and a phone number equal to the phone number
\* of a persisted record fails with the conflict message naming that number
\* and inserts no row.
C3_CreateConflict ==
    (/\ call.op = "create"
     /\ is_valid(CallEmployee(NoneId))
     /\ \E i \in DOMAIN before : before[i].phNumber = call.ph_number)
    => /\ result = [success |-> FALSE,
                    message |-> <<"Employee with phone number {} already exists",
                                  call.ph_number>>]
       /\ table = before

C3_Witness ==
    /\ call.op = "create"
    /\ \E i \in DOMAIN before : before[i].phNumber = call.ph_number
    /\ call.ph_number = s_1_untrimmed
    /\ ~result.success
    /\ Cardinality(DOMAIN table) = 2

\* C4: for an id no persisted record has, Get, Delete and Update (with any
\* update request) return the not-found failure.
C4_NotFound ==
    (call.op \in {"get", "update", "delete"} /\ call.employee_id \notin DOMAIN before)
    => result = NotFound(call.employee_id)

C4_Witness ==
    /\ call.op = "update"
    /\ call.employee_id \notin DOMAIN before
    /\ DOMAIN before # {}
    /\ AllAbsent(CallRequest)
    /\ result = NotFound(call.employee_id)

\* C5 (as claimed): Update with a request in which all four fields are absent
\* returns the "no fields provided" failure for every id, persisted or not.
C5_NoFieldsAnyId ==
    (call.op = "update" /\ AllAbsent(CallRequest))
    => result = [success |-> FALSE, message |-> <<"No fields provided for update">>]

\* C5 (amended): Update with a request in which all four fields are absent
\* returns the "no fields provided" failure for every id of a persisted
\* record, and the not-found failure for an id no record has.
C5_NoFieldsPersistedId ==
    (call.op = "update" /\ AllAbsent(CallRequest))
    => /\ table = before
       /\ result = IF call.employee_id \in DOMAIN before
                   THEN [success |-> FALSE,
                         message |-> <<"No fields provided for update">>]
                   ELSE NotFound(call.employee_id)

C5_Witness ==
    /\ call.op = "update"
    /\ call.employee_id \in DOMAIN before
    /\ call.ph_number = <<>>
    /\ call.department = None
    /\ result.message = <<"No fields provided for update">>

\* C6: Update of a persisted record with a phone number that a different
\* persisted record holds fails with the conflict outcome and changes
\* nothing; Update with the record's own current phone number succeeds.
C6_UpdatePhone ==
    (/\ call.op = "update"
     /\ call.employee_id \in DOMAIN before
     /\ call.ph_number # None)
    => /\ (\E j \in DOMAIN before \ {call.employee_id} :
                before[j].phNumber = call.ph_number)
          => /\ ~result.success
             /\ result.message[1] = "Phone number {} is already in use by another employee"
             /\ table = before
       /\ (/\ before[call.employee_id].phNumber = call.ph_number
           /\ \A j \in DOMAIN before \ {call.employee_id} :
                before[j].phNumber # call.ph_number)
          => result.success

\* C7: Delete of a persisted id succeeds, a Get of that id right afterwards
\* returns not-found, count() is one less, and every other record is unchanged.
C7_Delete ==
    (call.op = "delete" /\ call.employee_id \in DOMAIN before)
    => /\ result.success
       /\ get_employee(table, call.employee_id).result = NotFound(call.employee_id)
       /\ dal_get_employee_count(table) = dal_get_employee_count(before) - 1
       /\ \A j \in DOMAIN before \ {call.employee_id} :
             j \in DOMAIN table /\ table[j] = before[j]

C7_Witness ==
    /\ call.op = "delete"
    /\ call.employee_id \in DOMAIN before
    /\ Cardinality(DOMAIN before) = 2
    /\ Cardinality(DOMAIN table) = 1
    /\ result.success

\* C8: Search with empty criteria (term and department filter both empty
\* after trimming) returns the records GetAll returns, in the same order,
\* which is ascending by id.
C8_SearchEmpty ==
    (/\ call.op = "search"
     /\ strip(call.search_term) = <<>>
     /\ strip(call.department) = <<>>)
    => /\ result.success
       /\ result.employees = get_all_employees(before).result.employees
       /\ ListsExactly(result.employees, before, DOMAIN before)

C8_Witness ==
    /\ call.op = "search"
    /\ call.search_term = s_blank
    /\ call.department = <<>>
    /\ Len(result.employees) = 2

\* C9: Search with a term and a department filter returns exactly the
\* persisted records whose first or last name contains the term (letter case
\* ignored) and whose department equals the filter exactly, by ascending id;
\* over the fixture, "an" and "Engineering" give only Anna Lee/Engineering.
C9_SearchBoth ==
    (/\ call.op = "search"
     /\ strip(call.search_term) # <<>>
     /\ strip(call.department) # <<>>)
    => /\ result.success
       /\ ListsExactly(result.employees, before,
             {i \in DOMAIN before :
                 /\ NameMatches(strip(call.search_term), before[i])
                 /\ before[i].department = strip(call.department)})
       /\ (/\ before = FixtureTable
           /\ strip(call.search_term) = s_an
           /\ strip(call.department) = s_Engineering)
          => result.employees = <<Employee(2, s_Anna, s_Lee, s_Engineering, s_2)>>

C9_Witness ==
    /\ call.op = "search"
    /\ before = FixtureTable
    /\ call.search_term = s_an
    /\ call.department = s_Engineering
    /\ Len(result.employees) = 1
    /\ result.employees[1].id = 2

\* C10: Search with a non-empty term only (any characters, '%' and '_'
\* included) returns exactly the persisted records whose first or last name
\* contains the term as a literal substring, letter case ignored, by
\* ascending id.
C10_SearchTerm ==
    (/\ call.op = "search"
     /\ strip(call.search_term) # <<>>
     /\ strip(call.department) = <<>>)
    => /\ result.success
       /\ ListsExactly(result.employees, before,
             {i \in DOMAIN before : NameMatches(strip(call.search_term), before[i])})

\* C11: Search with a department filter only returns exactly the persisted
\* records whose department equals the filter exactly (letter case counts,
\* a part of the name does not match), by ascending id.
C11_SearchDepartment ==
    (/\ call.op = "search"
     /\ strip(call.search_term) = <<>>
     /\ strip(call.department) # <<>>)
    => /\ result.success
       /\ ListsExactly(result.employees, before,
             {i \in DOMAIN before : before[i].department = strip(call.department)})

C11_Witness ==
    /\ call.op = "search"
    /\ before = FixtureTable
    /\ call.search_term = <<>>
    /\ call.department = s_Engineering
    /\ Len(result.employees) = 2
    /\ result.employees[1].id = 1
    /\ result.employees[2].id = 2

\* C12: whatever the criteria and the table, Search succeeds, its payload is
\* a list of persisted records by ascending id, and the count in its message
\* is the length of that list.
C12_SearchSucceeds ==
    call.op = "search"
    => /\ result.success
       /\ DOMAIN result = {"success", "message", "employees"}
       /\ ListsExactly(result.employees, before,
             {result.employees[k].id : k \in DOMAIN result.employees})
       /\ result.message = <<"Found {} matching employees", Len(result.employees)>>

C12_Witness ==
    /\ call.op = "search"
    /\ before = FixtureTable
    /\ call.search_term = s_an
    /\ call.department = <<>>
    /\ result.message = <<"Found {} matching employees", 2>>
    /\ Len(result.employees) = 2

\* The sum of the values of a function.
RECURSIVE SumOf(_)
SumOf(f) ==
    IF DOMAIN f = {} THEN 0
    ELSE LET x == CHOOSE y \in DOMAIN f : TRUE
         IN  f[x] + SumOf([y \in DOMAIN f \ {x} |-> f[y]])

\* C13: Statistics reports as total_employees the number of persisted
\* records, as total_departments the number of distinct departments among
\* them, and per-department counts that sum to total_employees; over the
\* sample of 10 employees in 4 departments these are 10, 4 and 10.
C13_Statistics ==
    call.op = "statistics"
    => /\ result.success
       /\ result.statistics.total_employees = Cardinality(DOMAIN before)
       /\ result.statistics.total_departments =
             Cardinality({before[i].department : i \in DOMAIN before})
       /\ SumOf(result.statistics.employees_per_department) =
             result.statistics.total_employees
       /\ before = SampleTable
          => /\ result.statistics.total_employees = 10
             /\ result.statistics.total_departments = 4
             /\ SumOf(result.statistics.employees_per_department) = 10

C13_Witness ==
    /\ call.op = "statistics"
    /\ before = SampleTable
    /\ result.statistics.total_employees = 10
    /\ result.statistics.departments = <<s_Engineering, s_Finance, s_HR, s_Marketing>>
    /\ result.statistics.employees_per_department[s_Engineering] = 3

\* C14: an Employee exported to the storage-row shape (phone under the key
\* phNumber) and imported back is the same Employee in all five fields.
C14_RoundTrip ==
    call.op = "round_trip"
    => /\ DOMAIN result.data = {"id", "fname", "lname", "department", "phNumber"}
       /\ result.data.phNumber = call.employee.ph_number
       /\ result.employee.id = call.employee.id
       /\ result.employee.fname = call.employee.fname
       /\ result.employee.lname = call.employee.lname
       /\ result.employee.department = call.employee.department
       /\ result.employee.ph_number = call.employee.ph_number

C14_Witness ==
    /\ call.op = "round_trip"
    /\ call.employee = [id |-> 1, fname |-> s_Al, lname |-> s_AN,
                        department |-> <<>>, ph_number |-> s_Al]
    /\ result.employee = call.employee

\* C18: however the update request is built (each field not given, empty,
\* only whitespace, or text with whitespace around it), each of its fields is
\* absent or a non-empty trimmed string, an empty input is absent, and
\* has_updates is true exactly when some field is present.
C18_UpdateData ==
    call.op = "update_data"
    => /\ \A f \in {"fname", "lname", "department", "ph_number"} :
             /\ \/ result.update_data[f] = None
                \/ /\ result.update_data[f] # <<>>
                   /\ result.update_data[f] = strip(call[f])
             /\ call[f] = <<>> => result.update_data[f] = None
       /\ result.has_updates <=> ~AllAbsent(result.update_data)

\* The operations of the Coordinator and the keys their payloads come under.
CoordinatorOps ==
    {"create", "get", "get_all", "search", "update", "delete", "statistics", "departments"}

PayloadKeys == {"employee_id", "employee", "employees", "statistics", "departments"}

\* A message: a template, with the values formatted into it after it.
IsMessage(m) == m # <<>> /\ m[1] \in STRING

\* C15: every Coordinator operation, whatever its outcome, returns an
\* envelope with a boolean success and a string message, and a payload only
\* when success is true.
C15_Envelope ==
    call.op \in CoordinatorOps
    => /\ "success" \in DOMAIN result
       /\ result.success \in BOOLEAN
       /\ "message" \in DOMAIN result
       /\ IsMessage(result.message)
       /\ DOMAIN result \cap PayloadKeys # {} => result.success

\* A Create input that is empty once trimmed.
Missing(value) == value = None \/ strip(value) = <<>>

\* C17: a Create with a field that is empty after trimming fails with the
\* validation-error list, one message per missing field in the order first
\* name, last name, department, phone, and inserts nothing; this holds too
\* when the phone given is in use, validation coming before the collision
\* check.
C17_CreateInvalid ==
    (/\ call.op = "create"
     /\ \/ Missing(call.fname) \/ Missing(call.lname)
        \/ Missing(call.department) \/ Missing(call.ph_number))
    => /\ result =
            [success |-> FALSE,
             message |-> <<"Validation failed">>,
             errors |->
                (IF Missing(call.fname) THEN <<"First name is required">> ELSE <<>>)
                \o (IF Missing(call.lname) THEN <<"Last name is required">> ELSE <<>>)
                \o (IF Missing(call.department)
                    THEN <<"Department is required">> ELSE <<>>)
                \o (IF Missing(call.ph_number)
                    THEN <<"Phone number is required">> ELSE <<>>)]
       /\ table = before

C17_Witness ==
    /\ call.op = "create"
    /\ call.fname = <<>>
    /\ call.lname = s_blank
    /\ call.department = s_Marketing
    /\ call.ph_number = s_3
    /\ \E i \in DOMAIN before : before[i].phNumber = s_3
    /\ result.errors = <<"First name is required", "Last name is required">>
    /\ table = before

\* C19: a successful Update sets exactly the fields present in the request
\* to the values of the request, on that record, and leaves its other fields,
\* its id and every other record as they were.
C19_UpdateFrame ==
    (call.op = "update" /\ result.success)
    => /\ call.employee_id \in DOMAIN before
       /\ DOMAIN table = DOMAIN before
       /\ \A i \in DOMAIN before \ {call.employee_id} : table[i] = before[i]
       /\ LET old == before[call.employee_id]
              new == table[call.employee_id]
          IN  /\ new.id = call.employee_id
              /\ new.fname =
                    IF CallRequest.fname # None THEN CallRequest.fname ELSE old.fname
              /\ new.lname =
                    IF CallRequest.lname # None THEN CallRequest.lname ELSE old.lname
              /\ new.department =
                    IF CallRequest.department # None THEN CallRequest.department
                    ELSE old.department
              /\ new.phNumber =
                    IF CallRequest.ph_number # None THEN CallRequest.ph_number
                    ELSE old.phNumber

C19_Witness ==
    /\ call.op = "update"
    /\ result.success
    /\ Cardinality(DOMAIN before) = 2
    /\ call.employee_id = 1
    /\ call.department = None
    /\ call.ph_number = s_2
    /\ before[1].phNumber = s_1
    /\ table[1].phNumber = s_2
    /\ table[1].department = before[1].department
    /\ table[2] = before[2]

\* C20: a successful Create persists the trimmed values of its inputs: the
\* table it leaves is the table the same Create with trimmed inputs leaves.
C20_CreateTrimmed ==
    (call.op = "create" /\ result.success)
    => /\ table = create_employee(before, strip(call.fname), strip(call.lname),
                     strip(call.department), strip(call.ph_number)).table
       /\ table[result.employee_id] = to_dict(CallEmployee(result.employee_id))

\* C16: a Coordinator operation during which a Storage Engine call fails
\* returns success=false with the message "Failed to <operation>: <cause>",
\* the cause being the error the storage call raised, and leaves the table as
\* it was; no operation reports success when a storage call it made failed,
\* Search with empty criteria and Statistics included.
C16_StorageFailure ==
    "fails" \in DOMAIN call
    => /\ result = [success |-> FALSE,
                    message |-> <<failed_to[call.op], <<dal_error[call.fails], call.cause>>>>]
       /\ table = before

\* C21: after an Employee is constructed, and after every later assignment
\* to its first name, last name, department or phone number, each of the
\* four fields is a string equal to its own trimmed value, never null.
C21_FieldsTrimmed ==
    call.op \in {"construct", "assign"}
    => \A f \in {"fname", "lname", "department", "ph_number"} :
          /\ result.employee[f] # None
          /\ result.employee[f] = strip(result.employee[f])

\* C22: the ids of the persisted records are pairwise distinct, a successful
\* Create returns an id no record persisted before it has, and no operation
\* changes the id of a persisted record: every record that stays keeps its id
\* and only a Create adds one, only a Delete removes one.
C22_IdsUnique ==
    /\ \A i \in DOMAIN table : table[i].id = i
    /\ \A i \in DOMAIN table : \A j \in DOMAIN table :
          table[i].id = table[j].id => i = j
    /\ (call.op = "create" /\ result.success)
       => /\ result.employee_id \notin DOMAIN before
          /\ DOMAIN table = DOMAIN before \cup {result.employee_id}
          /\ \A i \in DOMAIN before : table[i] = before[i]
    /\ ~(call.op = "create" /\ result.success)
       => DOMAIN table \subseteq DOMAIN before
    /\ call.op # "delete" => DOMAIN before \subseteq DOMAIN table

C22_Witness ==
    /\ call.op = "create"
    /\ result.success
    /\ DOMAIN before = {1}
    /\ result.employee_id = 2
    /\ table[1] = before[1]
    /\ table[2].id = 2

\* C23: ListDepartments returns the distinct departments of the persisted
\* records in sorted order with no duplicates, and lists no null and no
\* blank (empty) department.
C23_Departments ==
    call.op = "departments"
    => /\ result.success
       /\ {result.departments[k] : k \in DOMAIN result.departments} =
             {before[i].department : i \in
                {j \in DOMAIN before : /\ before[j].department # None
                                        /\ strip(before[j].department) # <<>>}}
       /\ \A k \in 1..(Len(result.departments) - 1) :
             text_less(result.departments[k], result.departments[k + 1])

\* C24: with one caller making one call at a time, Update never returns
\* "Failed to update employee <id>" and Delete never returns "Failed to
\* delete employee <id>": once the record exists (and, for Update, the
\* request has a field and its phone is free), the storage call matches a row
\* and the call succeeds.
C24_DefensiveUnreachable ==
    /\ call.op \in {"update", "delete"}
       => /\ result.message # <<"Failed to update employee {}", call.employee_id>>
          /\ result.message # <<"Failed to delete employee {}", call.employee_id>>
    /\ (/\ call.op = "update"
        /\ call.employee_id \in DOMAIN before
        /\ ~AllAbsent(CallRequest)
        /\ \/ CallRequest.ph_number = None
           \/ \A i \in DOMAIN before \ {call.employee_id} :
                 before[i].phNumber # CallRequest.ph_number)
       => result = [success |-> TRUE,
                    message |-> <<"Employee {} updated successfully", call.employee_id>>]
    /\ (call.op = "delete" /\ call.employee_id \in DOMAIN before)
       => result = [success |-> TRUE,
                    message |-> <<"Employee {} deleted successfully", call.employee_id>>]

C24_Witness ==
    /\ call.op = "update"
    /\ call.employee_id \in DOMAIN before
    /\ call.department = None
    /\ call.ph_number = s_blank
    /\ result.success
    /\ table[call.employee_id].phNumber = <<>>

\* The call of caller c has returned.
Done(c) == call[c] # Idle /\ call[c].pc = "done"

\* C25: the collision check and the write are separate storage steps with
\* no isolation: a Create with valid inputs succeeds exactly when its own
\* scan found no record with its phone, and an Update that returns success
\* found none on another record in its own scan, whatever the other caller
\* has written since the scan.  (That two callers so come to persist the same
\* phone is the state C25_Witness describes.)
C25_NoIsolation ==
    \A c \in ConcurrentCaller.callers :
        /\ (Done(c) /\ call[c].op = "create")
           => (result[c].success
               <=> /\ \A f \in {"fname", "lname", "department", "ph_number"} :
                         strip(call[c][f]) # <<>>
                   /\ \A k \in DOMAIN call[c].existing_employees :
                         call[c].existing_employees[k].phNumber # call[c].ph_number)
        /\ (Done(c) /\ call[c].op = "update" /\ result[c].success)
           => /\ call[c].all_employees # <<>>
              /\ \A k \in DOMAIN call[c].all_employees :
                    call[c].all_employees[k].phNumber = call[c].update_data.ph_number
                    => call[c].all_employees[k].id = call[c].employee_id

C25_Witness ==
    /\ \A c \in ConcurrentCaller.callers :
          /\ Done(c)
          /\ call[c].op = "create"
          /\ call[c].ph_number = s_1
          /\ call[c].existing_employees = <<>>
          /\ result[c].success
    /\ DOMAIN table = {1, 2}
    /\ table[1].phNumber = s_1
    /\ table[2].phNumber = s_1

\* C26: when an operation of the Storage Engine has returned or raised, the
\* connection it opened has been closed: no connection is open between calls.
C26_ConnectionsReleased ==
    call.op = "dal" => open_connections = 0

\* C27: every persisted record is valid: its first name, last name,
\* department and phone are all non-empty after trimming, whatever Create,
\* Update and Delete calls were made from the empty table.
C27_RecordsValid ==
    \A i \in DOMAIN table :
    \A column \in {"fname", "lname", "department", "phNumber"} :
        /\ table[i][column] # None
        /\ strip(table[i][column]) # <<>>

\* C28: Search with a term and a department filter returns the records of
\* the Search with the term alone that the Search with the department alone
\* returns too, in the same order.
C28_SearchBothIsIntersection ==
    (/\ call.op = "search"
     /\ strip(call.search_term) # <<>>
     /\ strip(call.department) # <<>>)
    => LET by_term ==
              search_employees(before,
                  EmployeeSearchCriteria(call.search_term, <<>>)).result.employees
           by_department ==
              search_employees(before,
                  EmployeeSearchCriteria(<<>>, call.department)).result.employees
           InDepartment(e) == \E k \in DOMAIN by_department : by_department[k] = e
       IN  result.employees = SelectSeq(by_term, InDepartment)

\* C29: a Create, Update or Delete that returns success=false (validation
\* failure, phone conflict, not found, no fields provided, or storage
\* failure) leaves the persisted table exactly as it was.
C29_FailureChangesNothing ==
    (call.op \in {"create", "update", "delete"} /\ ~result.success)
    => table = before

C29_Witness ==
    /\ call.op = "update"
    /\ "fails" \in DOMAIN call
    /\ call.fails = "update_employee"
    /\ call.department = s_IT
    /\ ~result.success
    /\ call.employee_id \in DOMAIN before
    /\ before[call.employee_id].department = s_HR
    /\ table = before

\* C30: Get, GetAll, Search (with either, both or no criteria), Statistics
\* and ListDepartments leave the persisted table as it was, rows and fields,
\* whatever they return.
C30_ReadsChangeNothing ==
    call.op \in {"get", "get_all", "search", "statistics", "departments"}
    => /\ DOMAIN table = DOMAIN before
       /\ \A i \in DOMAIN before : table[i] = before[i]

C30_Witness ==
    /\ call.op = "get"
    /\ "fails" \notin DOMAIN call
    /\ result.success
    /\ Cardinality(DOMAIN before) = 2
    /\ result.employee.id = 2
    /\ table = before

====
